---- MODULE Spec2Model ----
(***************************************************************************)
(* BLS aggregation and verification of src/src/aggregates.rs.              *)
(*                                                                         *)
(* The curve layer (amcl_utils, g1, g2, keys, signature) is not part of    *)
(* aggregates.rs.  It is modelled by a scaled-down pairing group:          *)
(*   G1 = Z_CurveOrder, generated by 1;                                    *)
(*   the G2 curve = Z_CurveOrder x Z_Cofactor, whose prime-order subgroup  *)
(*        G2 is the set of points with torsion component t = 0;            *)
(*   GT = (Z_CurveOrder, +), whose "unity" is 0, with e(P, R) = P * R.     *)
(* A point is held in projective form: x / z is the discrete logarithm of  *)
(* the point, z = 1 is the affine form.  Pairings read the x coordinate    *)
(* as it stands, which is why the code normalises before every pairing.    *)
(***************************************************************************)
EXTENDS Integers, Sequences, FiniteSets, TLC

\* ------------------------------------------------------------------ bounds

\* Order of the prime-order groups (stands for the 255-bit order of BLS12-381).
CurveOrder == 5
\* Order of the torsion part of the G2 curve outside the prime-order subgroup.
Cofactor == 3
\* Most public keys added to an AggregatePublicKey.
MaxKeys == 2
\* Most signatures added to an AggregateSignature.
MaxSigs == 2
\* Most elements of an aggregate handed to add_aggregate in one call.
MaxOther == 2

\* Most signature sets the iterator of a batch yields.
MaxSets == 2
\* Most public keys in one signature set of a batch.
MaxSetKeys == 1
\* Most zero draws of the random source in one batch verification.
MaxRedraws == 1

\* Secret keys of the signers (KeyGen never yields 0).
SecretKeys == {1, 2, 3}
\* Messages.
Msgs == {"cats", "different_msg!1"}

\* ------------------------------------------------------------ curve layer

\* Inverse of z in the base field.
Inv(z) == CHOOSE i \in 1..(CurveOrder - 1) : (i * z) % CurveOrder = 1

\* G1Point::new / GroupG1::new: the point at infinity.
G1_new == [x |-> 0, z |-> 1]
\* GroupG1::generator.
G1_generator == [x |-> 1, z |-> 1]
\* ECP::add: projective addition; the sum is left un-normalised (z grows).
G1_add(P, R) ==
    [x |-> (4 * (P.x * R.z + R.x * P.z)) % CurveOrder,
     z |-> (4 * P.z * R.z) % CurveOrder]
\* ECP::affine: normalise to z = 1.
G1_affine(P) == [x |-> (P.x * Inv(P.z)) % CurveOrder, z |-> 1]
\* ECP::neg.
G1_neg(P) == [x |-> (CurveOrder - P.x) % CurveOrder, z |-> P.z]
\* ECP::mul by a scalar k >= 0; the product is returned in affine form.
G1_mul(P, k) == [x |-> (G1_affine(P).x * (k % CurveOrder)) % CurveOrder, z |-> 1]
\* The discrete logarithm of a G1 point (what the point is, whatever its form).
G1_value(P) == G1_affine(P).x

\* G2Point::new / GroupG2::new: the point at infinity.
G2_new == [x |-> 0, z |-> 1, t |-> 0]
\* ECP2::add.
G2_add(P, R) ==
    [x |-> (4 * (P.x * R.z + R.x * P.z)) % CurveOrder,
     z |-> (4 * P.z * R.z) % CurveOrder,
     t |-> (P.t + R.t) % Cofactor]
\* ECP2::affine.
G2_affine(P) == [x |-> (P.x * Inv(P.z)) % CurveOrder, z |-> 1, t |-> P.t]
\* ECP2::mul by a scalar k >= 0.
G2_mul(P, k) ==
    [x |-> (G2_affine(P).x * (k % CurveOrder)) % CurveOrder,
     z |-> 1,
     t |-> (P.t * (k % Cofactor)) % Cofactor]
\* What a G2 point is: its prime-order part and its torsion part.
G2_value(P) == <<G2_affine(P).x, P.t>>

\* amcl_utils::subgroup_check_g2: is the point in the prime-order subgroup?
subgroup_check_g2(P) == P.t = 0

\* amcl_utils::hash_to_curve_g2: a fixed, injective map into G2 \ {infinity}.
hash_to_curve_g2(msg) ==
    [x |-> IF msg = "cats" THEN 2 ELSE 3, z |-> 1, t |-> 0]

\* The pairing e(P, R) of a G2 point and a G1 point, both read as affine.
pair_ate(P, R) == (P.x * R.x) % CurveOrder

\* amcl_utils::ate2_evaluation: e(P1, Q1) * e(P2, Q2) == 1, one evaluation.
ate2_evaluation(P1, Q1, P2, Q2) ==
    (pair_ate(P1, Q1) + pair_ate(P2, Q2)) % CurveOrder = 0

\* pair::initmp: the multi-pairing accumulator, no term yet.
pair_initmp == [terms |-> 0, f |-> 0]
\* pair::another: one more (G2, G1) term, both read as affine.
pair_another(r, P, R) == [terms |-> r.terms + 1, f |-> r.f + P.x * R.x]
\* pair::miller: the Miller-loop value of the accumulated terms.
pair_miller(r) == r.f
\* pair::fexp: the final exponentiation, onto the order-CurveOrder group GT.
pair_fexp(v) == v % CurveOrder
\* FP12::isunity.
isunity(v) == v = 0

\* An i64 is held as a sign and a 64-bit magnitude of eight big-endian bytes.
Zero8 == [i \in 1..8 |-> 0]
Invert8(b) == [i \in 1..8 |-> 255 - b[i]]
Increment8(b) ==
    [i \in 1..8 |-> IF \A j \in (i + 1)..8 : b[j] = 255 THEN (b[i] + 1) % 256 ELSE b[i]]
\* i64::from_be_bytes: two's complement, most significant byte first.
i64_from_be_bytes(bytes) ==
    IF bytes[1] >= 128 THEN [neg |-> TRUE, mag |-> Increment8(Invert8(bytes))]
    ELSE [neg |-> FALSE, mag |-> bytes]
i64_MIN == [neg |-> TRUE, mag |-> [i \in 1..8 |-> IF i = 1 THEN 128 ELSE 0]]
\* i64::abs where it is defined (every value but i64::MIN).
i64_abs(v) == [neg |-> FALSE, mag |-> v.mag]
\* The magnitude modulo m.
RECURSIVE BytesMod(_, _, _, _)
BytesMod(b, i, acc, m) ==
    IF i > Len(b) THEN acc ELSE BytesMod(b, i + 1, (acc * 256 + b[i]) % m, m)
\* Big::new_int(rand as isize) of a non-negative rand: the scalar, held by its
\* residue modulo the order of the curve groups (all a multiplication reads).
Big_new_int(rand) == BytesMod(rand.mag, 1, 0, CurveOrder * Cofactor)

\* PublicKey::from_secret_key: sk * G1, affine.
PublicKey_from_secret_key(sk) == [point |-> G1_mul(G1_generator, sk)]
\* Signature::new(msg, sk): sk * H(msg), affine.
Signature_new(msg, sk) == [point |-> G2_mul(hash_to_curve_g2(msg), sk)]

\* A signature decoded from bytes whose point is on the curve but outside the
\* prime-order subgroup (Signature::from_bytes makes no subgroup check).
ForeignSignature == [point |-> [x |-> 0, z |-> 1, t |-> 1]]

\* G1Point::as_bytes: normalise, then the compressed encoding: a flag byte
\* (128 compressed, 64 infinity, 32 sign of y) and the x coordinate, which a
\* point shares with its negative.
G1_as_bytes(P) ==
    LET v == G1_affine(P).x
        neg == (CurveOrder - v) % CurveOrder
    IN  IF v = 0 THEN <<128 + 64, 0>>
        ELSE IF v <= neg THEN <<128, v>>
        ELSE <<128 + 32, neg>>

\* G1Point::from_bytes: Err on a wrong length or invalid flags, else the
\* affine point; no subgroup check.
G1_from_bytes(bytes) ==
    IF Len(bytes) # 2 THEN [ok |-> FALSE, point |-> G1_new]
    ELSE LET flags == bytes[1]
             c_flag == (flags \div 128) % 2
             b_flag == (flags \div 64) % 2
             a_flag == (flags \div 32) % 2
             xc == bytes[2]
         IN  IF c_flag = 0 \/ flags % 32 # 0 THEN [ok |-> FALSE, point |-> G1_new]
             ELSE IF b_flag = 1
                  THEN [ok |-> (a_flag = 0 /\ xc = 0), point |-> G1_new]
             ELSE IF xc = 0 \/ 2 * xc > CurveOrder
                  THEN [ok |-> FALSE, point |-> G1_new]
             ELSE [ok |-> TRUE,
                   point |-> [x |-> IF a_flag = 1 THEN CurveOrder - xc ELSE xc,
                              z |-> 1]]

\* The negative of a G2 curve point given by its value <<v, t>>.
G2_neg_value(v) == <<(CurveOrder - v[1]) % CurveOrder, (Cofactor - v[2]) % Cofactor>>
\* Order of curve points used to pick which of P, -P carries the sign bit.
G2_le(v, w) == v[1] < w[1] \/ (v[1] = w[1] /\ v[2] <= w[2])

\* G2Point::as_bytes.
G2_as_bytes(P) ==
    LET v == G2_value(P)
        neg == G2_neg_value(v)
    IN  IF v = <<0, 0>> THEN <<128 + 64, 0>>
        ELSE IF G2_le(v, neg) THEN <<128, v[1] * Cofactor + v[2]>>
        ELSE <<128 + 32, neg[1] * Cofactor + neg[2]>>

\* G2Point::from_bytes.
G2_from_bytes(bytes) ==
    IF Len(bytes) # 2 THEN [ok |-> FALSE, point |-> G2_new]
    ELSE LET flags == bytes[1]
             c_flag == (flags \div 128) % 2
             b_flag == (flags \div 64) % 2
             a_flag == (flags \div 32) % 2
             xc == bytes[2]
             v == <<xc \div Cofactor, xc % Cofactor>>
             neg == G2_neg_value(v)
             w == IF a_flag = 1 THEN neg ELSE v
         IN  IF c_flag = 0 \/ flags % 32 # 0 THEN [ok |-> FALSE, point |-> G2_new]
             ELSE IF b_flag = 1
                  THEN [ok |-> (a_flag = 0 /\ xc = 0), point |-> G2_new]
             ELSE IF xc = 0 \/ xc >= CurveOrder * Cofactor \/ ~G2_le(v, neg)
                  THEN [ok |-> FALSE, point |-> G2_new]
             ELSE [ok |-> TRUE, point |-> [x |-> w[1], z |-> 1, t |-> w[2]]]

\* ------------------------------------------------------ AggregatePublicKey

AggregatePublicKey_new == [point |-> G1_new]

AggregatePublicKey_add(self, public_key) ==
    [point |-> G1_add(self.point, public_key.point)]

\* Mutant: add_aggregate that takes the other aggregate's point over.
AggregatePublicKey_add_aggregate_overwrite(self, aggregate_public_key) ==
    [point |-> aggregate_public_key.point]

AggregatePublicKey_add_aggregate(self, aggregate_public_key) ==
    [point |-> G1_add(self.point, aggregate_public_key.point)]

\* The for loop of from_public_keys: agg_key.point.add(&key.point) per key.
RECURSIVE add_keys(_, _)
add_keys(agg_key, keys) ==
    IF keys = <<>> THEN agg_key
    ELSE add_keys([point |-> G1_add(agg_key.point, Head(keys).point)], Tail(keys))

from_public_keys(keys) ==
    LET agg_key == add_keys(AggregatePublicKey_new, keys)
    IN  [point |-> G1_affine(agg_key.point)]

AggregatePublicKey_as_bytes(self) == G1_as_bytes(self.point)

AggregatePublicKey_from_bytes(bytes) ==
    LET r == G1_from_bytes(bytes)
    IN  [ok |-> r.ok, value |-> [point |-> r.point]]

\* ------------------------------------------------------ AggregateSignature

AggregateSignature_new == [point |-> G2_new]

\* Mutant: add that takes the signature's point over.
AggregateSignature_add_overwrite(self, signature) ==
    [point |-> signature.point]

AggregateSignature_add(self, signature) ==
    [point |-> G2_add(self.point, signature.point)]

AggregateSignature_add_aggregate(self, aggregate_signature) ==
    [point |-> G2_add(self.point, aggregate_signature.point)]

AggregateSignature_as_bytes(self) == G2_as_bytes(self.point)

\* Mutant: from_bytes that drops the decoded point.
AggregateSignature_from_bytes_dropped(bytes) ==
    LET r == G2_from_bytes(bytes)
    IN  [ok |-> r.ok, value |-> AggregateSignature_new]

AggregateSignature_from_bytes(bytes) ==
    LET r == G2_from_bytes(bytes)
    IN  [ok |-> r.ok, value |-> [point |-> r.point]]

\* Mutant: fast_aggregate_verify without the subgroup check.
fast_aggregate_verify_no_check(self, msg, public_keys) ==
    LET aggregate_public_key == from_public_keys(public_keys)
        sig_point == G2_affine(self.point)
        key_point == G1_affine(aggregate_public_key.point)
        msg_hash_point == G2_affine(hash_to_curve_g2(msg))
        generator_g1_negative == G1_neg(G1_generator)
    IN  [value |-> ate2_evaluation(sig_point, generator_g1_negative,
                                   msg_hash_point, key_point),
         steps |-> <<"aggregate", "hash", "affine", "pairing">>]

\* fast_aggregate_verify; "steps" lists the curve-layer work done by the call.
fast_aggregate_verify(self, msg, public_keys) ==
    IF ~subgroup_check_g2(self.point)
    THEN [value |-> FALSE, steps |-> <<"subgroup_check">>]
    ELSE LET aggregate_public_key == from_public_keys(public_keys)
             sig_point == G2_affine(self.point)
             key_point == G1_affine(aggregate_public_key.point)
             msg_hash_point == G2_affine(hash_to_curve_g2(msg))
             generator_g1_negative == G1_neg(G1_generator)
         IN  [value |-> ate2_evaluation(sig_point, generator_g1_negative,
                                        msg_hash_point, key_point),
              steps |-> <<"subgroup_check", "aggregate", "hash", "affine",
                          "pairing">>]

\* Mutant: the pre-aggregated verification without the subgroup check.
fast_aggregate_verify_pre_aggregated_no_check(self, msg, aggregate_public_key) ==
    LET sig_point == G2_affine(self.point)
        key_point == G1_affine(aggregate_public_key.point)
        msg_hash_point == G2_affine(hash_to_curve_g2(msg))
        generator_g1_negative == G1_neg(G1_generator)
    IN  [value |-> ate2_evaluation(sig_point, generator_g1_negative,
                                   msg_hash_point, key_point),
         steps |-> <<"affine", "hash", "affine", "pairing">>]

\* Mutant: the pre-aggregated verification without key_point.affine().
fast_aggregate_verify_pre_aggregated_no_affine(self, msg, aggregate_public_key) ==
    IF ~subgroup_check_g2(self.point)
    THEN [value |-> FALSE, steps |-> <<"subgroup_check">>]
    ELSE LET sig_point == G2_affine(self.point)
             key_point == aggregate_public_key.point
             msg_hash_point == G2_affine(hash_to_curve_g2(msg))
             generator_g1_negative == G1_neg(G1_generator)
         IN  [value |-> ate2_evaluation(sig_point, generator_g1_negative,
                                        msg_hash_point, key_point),
              steps |-> <<"subgroup_check", "affine", "hash", "affine",
                          "pairing">>]

\* Mutant: the pre-aggregated verification without generator_g1_negative.neg().
fast_aggregate_verify_pre_aggregated_no_neg(self, msg, aggregate_public_key) ==
    IF ~subgroup_check_g2(self.point)
    THEN [value |-> FALSE, steps |-> <<"subgroup_check">>]
    ELSE LET sig_point == G2_affine(self.point)
             key_point == G1_affine(aggregate_public_key.point)
             msg_hash_point == G2_affine(hash_to_curve_g2(msg))
         IN  [value |-> ate2_evaluation(sig_point, G1_generator,
                                        msg_hash_point, key_point),
              steps |-> <<"subgroup_check", "affine", "hash", "affine",
                          "pairing">>]

fast_aggregate_verify_pre_aggregated(self, msg, aggregate_public_key) ==
    IF ~subgroup_check_g2(self.point)
    THEN [value |-> FALSE, steps |-> <<"subgroup_check">>]
    ELSE LET sig_point == G2_affine(self.point)
             key_point == G1_affine(aggregate_public_key.point)
             msg_hash_point == G2_affine(hash_to_curve_g2(msg))
             generator_g1_negative == G1_neg(G1_generator)
         IN  [value |-> ate2_evaluation(sig_point, generator_g1_negative,
                                        msg_hash_point, key_point),
              steps |-> <<"subgroup_check", "affine", "hash", "affine",
                          "pairing">>]

\* ------------------------------------------------------------------ state

VARIABLES
    agg_pub,        \* an AggregatePublicKey of the caller
    agg_sig,        \* an AggregateSignature of the caller
    key_bag,        \* how often each signer's public key went into agg_pub
    sig_bag,        \* how often each signature went into agg_sig
    ret,            \* the last call that returned something or merged aggregates
    pc,             \* where verify_multiple_aggregate_signatures stands
    final_agg_sig,  \* S': sum of rand[i] * AggregateSignature[i], a raw G2 point
    pairing,        \* the multi-pairing accumulator
    cur,            \* the set the iterator yielded for this pass of the loop
    rand,           \* the i64 rand of the current set
    nsets,          \* signature sets taken from the iterator
    draws,          \* calls of rng.fill
    honest,         \* every set so far is the sum of its key holders' signatures
    passing,        \* every set so far passes fast_aggregate_verify by itself
    specified,      \* every curve operation so far got operands it is defined on
    result          \* "true" or "false" as returned, "none" before the return

aggVars == <<agg_pub, agg_sig, key_bag, sig_bag, ret>>
batchVars == <<pc, final_agg_sig, pairing, cur, rand, nsets, draws, honest, passing,
               specified, result>>

\* What a signature added to agg_sig is: Signature::new(msg, sk) of a signer,
\* or (sk = 0) the foreign signature outside the subgroup.
Contributions ==
    [sk : SecretKeys, msg : Msgs] \cup {[sk |-> 0, msg |-> "cats"]}

SignatureOf(c) ==
    IF c.sk = 0 THEN ForeignSignature ELSE Signature_new(c.msg, c.sk)

\* The PublicKey list of a list of secret keys.
PublicKeys(sks) == [i \in 1..Len(sks) |-> PublicKey_from_secret_key(sks[i])]

Min(a, b) == IF a <= b THEN a ELSE b

\* Sequences over S of length at most n.
SeqUpTo(S, n) == UNION {[1..k -> S] : k \in 0..n}

\* Multisets: the number of elements, adding a list, and the lists of a multiset.
RECURSIVE BagSize(_, _)
BagSize(b, S) ==
    IF S = {} THEN 0
    ELSE LET e == CHOOSE e \in S : TRUE IN b[e] + BagSize(b, S \ {e})
Size(b) == BagSize(b, DOMAIN b)
BagOfSeq(s, S) == [e \in S |-> Cardinality({i \in 1..Len(s) : s[i] = e})]
BagPlusSeq(b, s) == [e \in DOMAIN b |-> b[e] + BagOfSeq(s, DOMAIN b)[e]]
RECURSIVE Orders(_)
Orders(b) ==
    LET present == {e \in DOMAIN b : b[e] > 0}
    IN  IF present = {} THEN {<<>>}
        ELSE UNION {{<<e>> \o s : s \in Orders([b EXCEPT ![e] = @ - 1])} :
                        e \in present}

\* An AggregateSignature built by add-ing the signatures of cs in order.
RECURSIVE add_signatures(_, _)
add_signatures(agg, cs) ==
    IF cs = <<>> THEN agg
    ELSE add_signatures(AggregateSignature_add(agg, SignatureOf(Head(cs))), Tail(cs))

\* An AggregatePublicKey built by add-ing the keys one by one, not normalised.
RECURSIVE add_public_keys(_, _)
add_public_keys(agg, pks) ==
    IF pks = <<>> THEN agg
    ELSE add_public_keys(AggregatePublicKey_add(agg, Head(pks)), Tail(pks))

NoRet == [op |-> "none"]

AggInit ==
    /\ agg_pub = AggregatePublicKey_new
    /\ agg_sig = AggregateSignature_new
    /\ key_bag = [k \in SecretKeys |-> 0]
    /\ sig_bag = [c \in Contributions |-> 0]
    /\ ret = NoRet

\* agg_pub = AggregatePublicKey::from_public_keys(keys)
PkFromPublicKeys ==
    \E sks \in SeqUpTo(SecretKeys, MaxKeys) :
        /\ agg_pub' = from_public_keys(PublicKeys(sks))
        /\ key_bag' = BagOfSeq(sks, SecretKeys)
        /\ ret' = NoRet
        /\ UNCHANGED <<agg_sig, sig_bag, batchVars>>

\* agg_pub.add(&pk)
PkAdd ==
    \E sk \in SecretKeys :
        /\ Size(key_bag) < MaxKeys
        /\ agg_pub' = AggregatePublicKey_add(agg_pub, PublicKey_from_secret_key(sk))
        /\ key_bag' = BagPlusSeq(key_bag, <<sk>>)
        /\ ret' = NoRet
        /\ UNCHANGED <<agg_sig, sig_bag, batchVars>>

\* agg_pub.add_aggregate(&other), other built by from_public_keys or by add
PkAddAggregate ==
    \E sks \in SeqUpTo(SecretKeys, Min(MaxOther, MaxKeys - Size(key_bag))),
       normalised \in BOOLEAN :
        LET other == IF normalised THEN from_public_keys(PublicKeys(sks))
                     ELSE add_public_keys(AggregatePublicKey_new, PublicKeys(sks))
        IN  /\ Size(key_bag) + Len(sks) <= MaxKeys
            /\ agg_pub' = AggregatePublicKey_add_aggregate(agg_pub, other)
            /\ key_bag' = BagPlusSeq(key_bag, sks)
            /\ ret' = [op |-> "pk_add_aggregate", n |-> Len(sks)]
            /\ UNCHANGED <<agg_sig, sig_bag, batchVars>>

\* agg_pub = AggregatePublicKey::from_bytes(&agg_pub.as_bytes())
PkRoundTrip ==
    LET bytes == AggregatePublicKey_as_bytes(agg_pub)
        r == AggregatePublicKey_from_bytes(bytes)
    IN  /\ agg_pub' = IF r.ok THEN r.value ELSE agg_pub
        /\ ret' = [op |-> "pk_round_trip", ok |-> r.ok, before |-> agg_pub]
        /\ UNCHANGED <<agg_sig, key_bag, sig_bag, batchVars>>

\* agg_sig = AggregateSignature::new()
SigNew ==
    /\ agg_sig' = AggregateSignature_new
    /\ sig_bag' = [c \in Contributions |-> 0]
    /\ ret' = NoRet
    /\ UNCHANGED <<agg_pub, key_bag, batchVars>>

\* agg_sig.add(&sig)
SigAdd ==
    \E c \in Contributions :
        /\ Size(sig_bag) < MaxSigs
        /\ agg_sig' = AggregateSignature_add(agg_sig, SignatureOf(c))
        /\ sig_bag' = BagPlusSeq(sig_bag, <<c>>)
        /\ ret' = NoRet
        /\ UNCHANGED <<agg_pub, key_bag, batchVars>>

\* agg_sig.add_aggregate(&other), other built by add
SigAddAggregate ==
    \E cs \in SeqUpTo(Contributions, Min(MaxOther, MaxSigs - Size(sig_bag))) :
        LET other == add_signatures(AggregateSignature_new, cs)
        IN  /\ Size(sig_bag) + Len(cs) <= MaxSigs
            /\ agg_sig' = AggregateSignature_add_aggregate(agg_sig, other)
            /\ sig_bag' = BagPlusSeq(sig_bag, cs)
            /\ ret' = [op |-> "sig_add_aggregate", n |-> Len(cs)]
            /\ UNCHANGED <<agg_pub, key_bag, batchVars>>

\* agg_sig = AggregateSignature::from_bytes(&agg_sig.as_bytes())
SigRoundTrip ==
    LET bytes == AggregateSignature_as_bytes(agg_sig)
        r == AggregateSignature_from_bytes(bytes)
    IN  /\ agg_sig' = IF r.ok THEN r.value ELSE agg_sig
        /\ ret' = [op |-> "sig_round_trip", ok |-> r.ok, before |-> agg_sig]
        /\ UNCHANGED <<agg_pub, key_bag, sig_bag, batchVars>>

\* agg_sig.fast_aggregate_verify(msg, &keys), keys the keys behind agg_pub in
\* any order
FastAggregateVerify ==
    \E msg \in Msgs, sks \in Orders(key_bag) :
        LET r == fast_aggregate_verify(agg_sig, msg, PublicKeys(sks))
        IN  /\ ret' = [op |-> "fast_aggregate_verify", msg |-> msg, keys |-> sks,
                       value |-> r.value, steps |-> r.steps]
            /\ UNCHANGED <<agg_pub, agg_sig, key_bag, sig_bag, batchVars>>

\* agg_sig.fast_aggregate_verify_pre_aggregated(msg, &agg_pub)
FastAggregateVerifyPreAggregated ==
    \E msg \in Msgs :
        LET r == fast_aggregate_verify_pre_aggregated(agg_sig, msg, agg_pub)
        IN  /\ ret' = [op |-> "fast_aggregate_verify_pre_aggregated", msg |-> msg,
                       value |-> r.value, steps |-> r.steps]
            /\ UNCHANGED <<agg_pub, agg_sig, key_bag, sig_bag, batchVars>>

\* ------------------------------- verify_multiple_aggregate_signatures

\* The signatures on msg by the holders of keys.
SignaturesBy(keys, msg) == [i \in 1..Len(keys) |-> [sk |-> keys[i], msg |-> msg]]

\* What a set's aggregate signature holds beyond its key holders' signatures:
\* nothing, the foreign signature, or one more signer's signature.
BatchExtras == {<<>>, <<[sk |-> 0, msg |-> "cats"]>>, <<[sk |-> 3, msg |-> "cats"]>>}

\* The items the iterator can yield.
SignatureSets ==
    {[sig |-> add_signatures(AggregateSignature_new, SignaturesBy(keys, msg) \o extra),
      keys |-> keys, msg |-> msg] :
        keys \in SeqUpTo(SecretKeys, MaxSetKeys), msg \in Msgs, extra \in BatchExtras}

\* Outputs of rng.fill: 0, 1, 2, 3, -1, -3, i64::MAX, i64::MIN, i64::MIN + 1.
\* The curve order has 255 bits, so no 63-bit scalar is a multiple of it; the
\* outputs are chosen to keep that true of CurveOrder.
RngOutputs ==
    {   Zero8,
        <<0, 0, 0, 0, 0, 0, 0, 1>>,
        <<0, 0, 0, 0, 0, 0, 0, 2>>,
        <<0, 0, 0, 0, 0, 0, 0, 3>>,
        <<255, 255, 255, 255, 255, 255, 255, 255>>,
        <<255, 255, 255, 255, 255, 255, 255, 253>>,
        <<127, 255, 255, 255, 255, 255, 255, 255>>,
        <<128, 0, 0, 0, 0, 0, 0, 0>>,
        <<128, 0, 0, 0, 0, 0, 0, 1>>  }

\* The set's signature is the sum of the signatures on msg by the holders of keys.
IsHonestSet(set) ==
    G2_value(set.sig.point)
        = G2_value(add_signatures(AggregateSignature_new,
                                  SignaturesBy(set.keys, set.msg)).point)

\* The set passes fast_aggregate_verify by itself.
SetPasses(set) ==
    fast_aggregate_verify(set.sig, set.msg, PublicKeys(set.keys)).value

\* No set in hand.
NoSet == [sig |-> AggregateSignature_new, keys |-> <<>>, msg |-> ""]

BatchInit ==
    /\ pc = "idle"
    /\ final_agg_sig = G2_new
    /\ pairing = pair_initmp
    /\ cur = NoSet
    /\ rand = [neg |-> FALSE, mag |-> Zero8]
    /\ nsets = 0
    /\ draws = 0
    /\ honest = TRUE
    /\ passing = TRUE
    /\ specified = TRUE
    /\ result = "none"

\* Mutant: the entry with S' started at a G2 generator instead of GroupG2::new().
BatchStart_from_generator ==
    /\ pc = "idle"
    /\ final_agg_sig' = [x |-> 1, z |-> 1, t |-> 0]
    /\ pairing' = pair_initmp
    /\ pc' = "iter"
    /\ UNCHANGED <<cur, rand, nsets, draws, honest, passing, specified, result,
                   aggVars>>

\* Entry: let mut final_agg_sig = GroupG2::new(); let mut pairing = pair::initmp();
BatchStart ==
    /\ pc = "idle"
    /\ final_agg_sig' = G2_new
    /\ pairing' = pair_initmp
    /\ pc' = "iter"
    /\ UNCHANGED <<cur, rand, nsets, draws, honest, passing, specified, result,
                   aggVars>>

\* Loop head: the iterator yields one more set; let mut rand = 0.
BatchNext ==
    \E set \in SignatureSets :
        /\ pc = "iter"
        /\ nsets < MaxSets
        /\ cur' = set
        /\ nsets' = nsets + 1
        /\ honest' = (honest /\ IsHonestSet(set))
        /\ passing' = (passing /\ SetPasses(set))
        /\ rand' = [neg |-> FALSE, mag |-> Zero8]
        /\ pc' = "rand"
        /\ UNCHANGED <<final_agg_sig, pairing, draws, specified, result, aggVars>>

\* One pass of while rand == 0: rng.fill(&mut rand_bytes);
\* rand = i64::from_be_bytes(rand_bytes).abs().  abs of i64::MIN overflows: the
\* build with overflow checks panics, the build without returns i64::MIN.
BatchDraw ==
    \E rand_bytes \in RngOutputs :
        LET v == i64_from_be_bytes(rand_bytes)
        IN  /\ pc = "rand"
            /\ rand_bytes = Zero8 => draws - (nsets - 1) < MaxRedraws
            /\ draws' = draws + 1
            /\ IF v = i64_MIN
               THEN \/ /\ pc' = "panicked"
                       /\ rand' = rand
                    \/ /\ pc' = "body"
                       /\ rand' = i64_MIN
               ELSE /\ rand' = i64_abs(v)
                    /\ pc' = IF i64_abs(v).mag = Zero8 THEN "rand" ELSE "body"
            /\ UNCHANGED <<final_agg_sig, pairing, cur, nsets, honest, passing,
                           specified, result, aggVars>>

\* The rest of the loop body.  A negative rand (i64::MIN) makes Big::new_int
\* build a scalar the curve layer is not defined on: mul recodes it into window
\* digits before it reads the point, so both products are the same, unknown,
\* multiple k of their points.
BatchBody ==
    \E k \in IF rand.neg THEN 0..(CurveOrder * Cofactor - 1) ELSE {0} :
        LET big == IF rand.neg THEN k ELSE Big_new_int(rand)
            hash_point == G2_affine(hash_to_curve_g2(cur.msg))
            apk == from_public_keys(PublicKeys(cur.keys)).point
            aggregate_public_key == G1_affine(G1_mul(apk, big))
        IN  /\ pc = "body"
            /\ pairing' = pair_another(pairing, hash_point, aggregate_public_key)
            /\ final_agg_sig' = G2_add(final_agg_sig, G2_mul(cur.sig.point, big))
            /\ specified' = (specified /\ ~rand.neg)
            /\ cur' = NoSet
            /\ pc' = "iter"
            /\ UNCHANGED <<rand, nsets, draws, honest, passing, result, aggVars>>

\* The iterator is exhausted: the e(S', -G1) term, one Miller loop, one final
\* exponentiation, isunity.  The pairing is defined on the prime-order
\* subgroup; with S' outside it the value is not determined.
BatchFinish ==
    \E undetermined \in BOOLEAN :
        LET negative_g1 == G1_neg(G1_generator)
            s_affine == G2_affine(final_agg_sig)
            all_terms == pair_another(pairing, s_affine, negative_g1)
            v == pair_fexp(pair_miller(all_terms))
            in_subgroup == subgroup_check_g2(s_affine)
        IN  /\ pc = "iter"
            /\ in_subgroup => undetermined = FALSE
            /\ final_agg_sig' = s_affine
            /\ pairing' = all_terms
            /\ result' = IF (IF in_subgroup THEN isunity(v) ELSE undetermined)
                         THEN "true" ELSE "false"
            /\ specified' = (specified /\ in_subgroup)
            /\ pc' = "done"
            /\ UNCHANGED <<cur, rand, nsets, draws, honest, passing, aggVars>>

vars == <<agg_pub, agg_sig, key_bag, sig_bag, ret, pc, final_agg_sig, pairing,
          cur, rand, nsets, draws, honest, passing, specified, result>>

Init == AggInit /\ BatchInit

Next ==
    \/ PkFromPublicKeys
    \/ PkAdd
    \/ PkAddAggregate
    \/ PkRoundTrip
    \/ SigNew
    \/ SigAdd
    \/ SigAddAggregate
    \/ SigRoundTrip
    \/ FastAggregateVerify
    \/ FastAggregateVerifyPreAggregated

\* The aggregates and the single verifications.
Spec == Init /\ [][Next]_vars

NextBatch ==
    \/ BatchStart
    \/ BatchNext
    \/ BatchDraw
    \/ BatchBody
    \/ BatchFinish

\* One call of verify_multiple_aggregate_signatures.
SpecBatch == Init /\ [][NextBatch]_vars

\* ----------------------------------------------------------------- claims

\* The last call was a single verification of agg_sig for message ret.msg.
IsPreAggregatedCall == ret.op = "fast_aggregate_verify_pre_aggregated"
IsVerifyCall ==
    ret.op \in {"fast_aggregate_verify", "fast_aggregate_verify_pre_aggregated"}

\* agg_sig holds signatures of signers only, all of them on msg.
AllSignedOn(msg) ==
    \A c \in Contributions : sig_bag[c] > 0 => (c.sk # 0 /\ c.msg = msg)

\* How often signer sk signed msg into agg_sig.
Signed(sk, msg) == sig_bag[[sk |-> sk, msg |-> msg]]

\* agg_sig is the sum of the signatures on msg of exactly the signers whose
\* keys went into agg_pub, one signature per key.
SignersAreKeys(msg) ==
    /\ AllSignedOn(msg)
    /\ \A sk \in SecretKeys : key_bag[sk] = Signed(sk, msg)

\* C1: when a non-empty collection of signers each sign m, agg_sig is built from
\* exactly those signatures and agg_pub from exactly those signers' public
\* keys, fast_aggregate_verify_pre_aggregated(m, agg_pub) returns true.
C1_Completeness ==
    (IsPreAggregatedCall /\ Size(sig_bag) >= 1 /\ SignersAreKeys(ret.msg))
        => ret.value = TRUE

C1_Witness ==
    /\ IsPreAggregatedCall
    /\ Size(sig_bag) >= 2
    /\ SignersAreKeys(ret.msg)
    /\ agg_pub.point.z # 1
    /\ ret.value = TRUE

\* C4: both single verifications return false when the signature point fails
\* the subgroup check, whatever the message and the keys, and the subgroup
\* check is then the only curve-layer work of the call.
C4_SubgroupRejection ==
    (IsVerifyCall /\ ~subgroup_check_g2(agg_sig.point))
        => (ret.value = FALSE /\ ret.steps = <<"subgroup_check">>)

C4_Witness ==
    /\ ret.op = "fast_aggregate_verify"
    /\ ~subgroup_check_g2(agg_sig.point)
    /\ Size(key_bag) >= 1
    /\ ret.value = FALSE

\* C5: after any sequence of add / add_aggregate calls each aggregate is the
\* group sum of everything contributed: it is the point that from_public_keys
\* or repeated add gives for the whole collection in any order, and verifies
\* alike.
C5_OrderIndependence ==
    /\ \A ks \in Orders(key_bag) :
        /\ G1_affine(agg_pub.point) = from_public_keys(PublicKeys(ks)).point
        /\ G1_affine(agg_pub.point)
               = G1_affine(add_public_keys(AggregatePublicKey_new, PublicKeys(ks)).point)
    /\ \A cs \in Orders(sig_bag) :
        G2_affine(agg_sig.point)
            = G2_affine(add_signatures(AggregateSignature_new, cs).point)
    /\ \A ks \in Orders(key_bag), msg \in Msgs :
        fast_aggregate_verify_pre_aggregated(agg_sig, msg, agg_pub).value
            = fast_aggregate_verify_pre_aggregated(
                  agg_sig, msg, from_public_keys(PublicKeys(ks))).value
    /\ \A cs \in Orders(sig_bag), msg \in Msgs :
        fast_aggregate_verify_pre_aggregated(agg_sig, msg, agg_pub).value
            = fast_aggregate_verify_pre_aggregated(
                  add_signatures(AggregateSignature_new, cs), msg, agg_pub).value

C5_Witness ==
    /\ ret.op = "pk_add_aggregate"
    /\ ret.n = 1
    /\ Size(key_bag) = 2
    /\ Cardinality(Orders(key_bag)) > 1
    /\ Cardinality(Orders(sig_bag)) > 1

\* C6: from_bytes(as_bytes(a)) succeeds for an AggregatePublicKey and for an
\* AggregateSignature, normalised or not, and gives the same group point, so
\* fast_aggregate_verify_pre_aggregated returns the same on the decoded
\* aggregate as on the original.
C6_CodecRoundTrip ==
    /\ ret.op = "pk_round_trip" =>
        /\ ret.ok
        /\ G1_value(agg_pub.point) = G1_value(ret.before.point)
        /\ \A msg \in Msgs :
            fast_aggregate_verify_pre_aggregated(agg_sig, msg, agg_pub).value
                = fast_aggregate_verify_pre_aggregated(agg_sig, msg, ret.before).value
    /\ ret.op = "sig_round_trip" =>
        /\ ret.ok
        /\ G2_value(agg_sig.point) = G2_value(ret.before.point)
        /\ \A msg \in Msgs :
            fast_aggregate_verify_pre_aggregated(agg_sig, msg, agg_pub).value
                = fast_aggregate_verify_pre_aggregated(ret.before, msg, agg_pub).value

C6_Witness ==
    /\ ret.op = "sig_round_trip"
    /\ ret.ok
    /\ ret.before.point.z # 1
    /\ Size(sig_bag) >= 2
    /\ SignersAreKeys("cats")
    /\ agg_pub.point.z = 1
    /\ fast_aggregate_verify_pre_aggregated(agg_sig, "cats", agg_pub).value = TRUE

\* C7: fast_aggregate_verify(m, ks) returns what
\* fast_aggregate_verify_pre_aggregated returns for from_public_keys(ks), and
\* for the aggregate built by add-ing ks without normalisation, for every
\* signature, message and key list, the empty list included.
C7_EntryPointsAgree ==
    ret.op = "fast_aggregate_verify" =>
        /\ ret.value = fast_aggregate_verify_pre_aggregated(
                           agg_sig, ret.msg, from_public_keys(PublicKeys(ret.keys))).value
        /\ ret.value = fast_aggregate_verify_pre_aggregated(
                           agg_sig, ret.msg,
                           add_public_keys(AggregatePublicKey_new,
                                           PublicKeys(ret.keys))).value
        /\ ret.value
               = fast_aggregate_verify_pre_aggregated(agg_sig, ret.msg, agg_pub).value

C7_Witness ==
    /\ ret.op = "fast_aggregate_verify"
    /\ Len(ret.keys) = 2
    /\ agg_pub.point.z # 1
    /\ Size(sig_bag) >= 1
    /\ ret.value = TRUE

\* C8: when agg_sig is a valid aggregate over m for the keys of agg_pub plus one
\* further signature on m, by a signer among those keys or not,
\* fast_aggregate_verify_pre_aggregated(m, agg_pub) returns false.
C8_ExtraSignatureRejected ==
    (/\ IsPreAggregatedCall
     /\ AllSignedOn(ret.msg)
     /\ Size(key_bag) >= 1
     /\ \E x \in SecretKeys : \A sk \in SecretKeys :
            Signed(sk, ret.msg) = key_bag[sk] + (IF sk = x THEN 1 ELSE 0))
        => ret.value = FALSE

\* The double-signing case.
C8_Witness ==
    /\ IsPreAggregatedCall
    /\ AllSignedOn(ret.msg)
    /\ key_bag[2] = 1 /\ Size(key_bag) = 1
    /\ Signed(2, ret.msg) = 2 /\ Size(sig_bag) = 2
    /\ ret.value = FALSE

\* agg_sig is a valid aggregate over msg by a non-empty collection K of signers.
ValidAggregateOn(msg) == AllSignedOn(msg) /\ Size(sig_bag) >= 1

\* The keys of agg_pub are a strict part of K, or K and more with a key that did
\* not sign, or keys none of which signed.
StrictSubsetOfSigners(msg) ==
    /\ \A sk \in SecretKeys : key_bag[sk] <= Signed(sk, msg)
    /\ \E sk \in SecretKeys : key_bag[sk] < Signed(sk, msg)
SupersetWithNonSigner(msg) ==
    /\ \A sk \in SecretKeys : key_bag[sk] >= Signed(sk, msg)
    /\ \E sk \in SecretKeys : key_bag[sk] > 0 /\ Signed(sk, msg) = 0
NoneSigned(msg) ==
    /\ Size(key_bag) >= 1
    /\ \A sk \in SecretKeys : key_bag[sk] > 0 => Signed(sk, msg) = 0

\* The aggregate point of the signers K of agg_sig.
RECURSIVE SumOfSigners(_, _)
SumOfSigners(msg, S) ==
    IF S = {} THEN 0
    ELSE LET sk == CHOOSE sk \in S : TRUE
         IN  (sk * Signed(sk, msg) + SumOfSigners(msg, S \ {sk})) % CurveOrder

\* C9 as stated, for a non-empty agg_pub (the empty aggregate key is the case
\* of C11) and signers and keys that each occur once: against a strict subset of the signers, against a superset with a
\* non-signing key, and against keys none of which signed, verification
\* returns false; against exactly the signers it returns true.
C9_AsStated ==
    (/\ IsPreAggregatedCall
     /\ ValidAggregateOn(ret.msg)
     /\ Size(key_bag) >= 1
     /\ \A sk \in SecretKeys : Signed(sk, ret.msg) <= 1 /\ key_bag[sk] <= 1) =>
        /\ (\/ StrictSubsetOfSigners(ret.msg)
            \/ SupersetWithNonSigner(ret.msg)
            \/ NoneSigned(ret.msg)) => ret.value = FALSE
        /\ SignersAreKeys(ret.msg) => ret.value = TRUE

\* C9 amended: in those three cases verification returns false unless the
\* keys of agg_pub add up to the same point as the signers' keys (the omitted
\* or added keys cancel); against exactly the signers it returns true.
C9_SubsetSupersetRejected ==
    (IsPreAggregatedCall /\ ValidAggregateOn(ret.msg)) =>
        /\ (/\ \/ StrictSubsetOfSigners(ret.msg)
               \/ SupersetWithNonSigner(ret.msg)
               \/ NoneSigned(ret.msg)
            /\ G1_value(agg_pub.point) # SumOfSigners(ret.msg, SecretKeys))
               => ret.value = FALSE
        /\ SignersAreKeys(ret.msg) => ret.value = TRUE

C9_Witness ==
    /\ IsPreAggregatedCall
    /\ ValidAggregateOn(ret.msg)
    /\ Signed(1, ret.msg) = 1 /\ Signed(2, ret.msg) = 1
    /\ key_bag[1] = 1 /\ Size(key_bag) = 1
    /\ ret.value = FALSE

\* C10: when every signer behind agg_pub signed once, one of them a message
\* other than m and the rest m, fast_aggregate_verify_pre_aggregated(m, agg_pub)
\* returns false.
C10_CrossMessageRejected ==
    (/\ IsPreAggregatedCall
     /\ \E c0 \in Contributions :
            /\ c0.sk # 0 /\ c0.msg # ret.msg /\ sig_bag[c0] = 1
            /\ \A c \in Contributions \ {c0} :
                   sig_bag[c] > 0 => (c.sk # 0 /\ c.msg = ret.msg)
            /\ \A sk \in SecretKeys :
                   key_bag[sk] = Signed(sk, ret.msg) + (IF sk = c0.sk THEN 1 ELSE 0))
        => ret.value = FALSE

C10_Witness ==
    /\ IsPreAggregatedCall
    /\ ret.msg = "cats"
    /\ sig_bag[[sk |-> 2, msg |-> "different_msg!1"]] = 1
    /\ sig_bag[[sk |-> 3, msg |-> "cats"]] = 1
    /\ Size(sig_bag) = 2
    /\ key_bag[2] = 1 /\ key_bag[3] = 1
    /\ ret.value = FALSE

\* C11: for every message, fast_aggregate_verify_pre_aggregated of an
\* aggregate signature that is not the identity against an AggregatePublicKey
\* no key was added to (new(), the G1 identity) returns false.
C11_IdentityKeyRejected ==
    (/\ IsPreAggregatedCall
     /\ Size(key_bag) = 0
     /\ G2_value(agg_sig.point) # G2_value(G2_new))
        => (G1_value(agg_pub.point) = G1_value(G1_new) /\ ret.value = FALSE)

\* A signature of the subgroup, so that the pairing decides.
C11_Witness ==
    /\ IsPreAggregatedCall
    /\ Size(key_bag) = 0
    /\ agg_pub = AggregatePublicKey_new
    /\ Size(sig_bag) >= 1
    /\ subgroup_check_g2(agg_sig.point)
    /\ G2_value(agg_sig.point) # G2_value(G2_new)
    /\ ret.value = FALSE

\* verify_multiple_aggregate_signatures has ended, by return or by panic.
BatchEnded == pc \in {"done", "panicked"}

\* C2 as stated: a batch of n >= 1 sets, each the sum of its key holders'
\* signatures on its message, makes verify_multiple_aggregate_signatures
\* return true whatever the random source puts out.
C2_AsStated ==
    (BatchEnded /\ nsets >= 1 /\ honest) => result = "true"

\* C12 as stated: whatever eight bytes the random source puts out, taking the
\* absolute value never overflows, and the rand that leaves the while loop and
\* is used for the set is in 1 .. 2^63 - 1: not zero, not negative.
C12_AsStated ==
    /\ pc # "panicked"
    /\ pc = "body" => (~rand.neg /\ rand.mag # Zero8 /\ rand.mag[1] <= 127)

\* Where the call stands fixes how many pairing terms there are: one per set
\* whose body ran, and the e(S', -G1) term once the result is computed, which
\* happens once, after the last set.
BatchCounts ==
    /\ pc = "idle" => (nsets = 0 /\ result = "none")
    /\ pc = "iter" => (pairing.terms = nsets /\ result = "none")
    /\ pc \in {"rand", "body"} => (pairing.terms = nsets - 1 /\ result = "none")
    /\ BatchEnded => (pairing.terms = nsets + 1 /\ result # "none")

\* What a step does next depends on where the call stands and on the bytes
\* drawn, never on the set: each set taken is drawn for until a draw is not
\* zero, then its body runs once, with one scalar k for both products.
BatchStep ==
    /\ pc = "idle" => pc' = "iter"
    /\ pc = "iter" => (\/ pc' = "rand" /\ nsets' = nsets + 1
                       \/ pc' = "done" /\ nsets' = nsets)
    /\ pc = "rand" => /\ pc' = (IF rand'.mag = Zero8 THEN "rand" ELSE "body")
                      /\ draws' = draws + 1
                      /\ nsets' = nsets
    /\ pc = "body" =>
        /\ pc' = "iter"
        /\ nsets' = nsets
        /\ draws' = draws
        /\ \E k \in 0..(CurveOrder * Cofactor - 1) :
            /\ ~rand.neg => k = Big_new_int(rand)
            /\ pairing' = pair_another(
                   pairing, G2_affine(hash_to_curve_g2(cur.msg)),
                   G1_affine(G1_mul(from_public_keys(PublicKeys(cur.keys)).point, k)))
            /\ final_agg_sig' = G2_add(final_agg_sig, G2_mul(cur.sig.point, k))
    /\ BatchEnded => FALSE

\* C13 as stated: verify_multiple_aggregate_signatures takes every set once, in
\* one forward pass with no early end, uses one accepted scalar per set for
\* both products, adds n + 1 pairing terms and computes the result once, after
\* the last set; the steps depend on the number of sets and the bytes drawn,
\* not on the sets.
C13_AsStated == []BatchCounts /\ [][BatchStep]_vars

\* C14: with an empty signature_sets, verify_multiple_aggregate_signatures
\* draws nothing from the random source, its S' is the identity, its only
\* pairing term is e(identity, -G1), and it returns true.
C14_EmptyBatch ==
    (BatchEnded /\ nsets = 0) =>
        /\ pc = "done"
        /\ draws = 0
        /\ G2_value(final_agg_sig) = G2_value(G2_new)
        /\ pairing = pair_another(pair_initmp, G2_new, G1_neg(G1_generator))
        /\ result = "true"

C14_Witness ==
    /\ pc = "done"
    /\ nsets = 0
    /\ draws = 0
    /\ pairing.terms = 1
    /\ result = "true"

\* C3 as stated, over the runs in which every curve operation got operands it
\* is defined on: when verify_multiple_aggregate_signatures returns true, every
\* set of the batch passes fast_aggregate_verify by itself.
C3_AsStated ==
    (pc = "done" /\ result = "true" /\ specified) => passing

====
